---- MODULE Spec2Model ----
(***************************************************************************)
(* Verification model of the blender_render pipeline.                      *)
(*                                                                         *)
(*   SpecWeb         the Flask pipeline of src/main.py: start_render,      *)
(*                   run_render_pipeline and its five stages,              *)
(*                   cancel_render; one request                            *)
(*   SpecWebConc     the same pipeline serving several requests            *)
(*   SpecGui         render_worker of src/main_gui_enhanced.py and its     *)
(*                   AI stages and video creation                          *)
(*   SpecEngine      BlenderRenderEngine of                                *)
(*                   src/core/blender_engine_original.py: render,          *)
(*                   _monitor_progress, cancel_render; one caller          *)
(*   SpecEngineLive  SpecEngine with the engine's threads scheduled fairly *)
(*   SpecEngineConc  render() called by several threads on one engine      *)
(*   SpecEngineCalls the same without the monitor threads                  *)
(*   SpecEngineSeq   render() called several times in a row on one engine, *)
(*                   with cancel_render                                    *)
(*   SpecMonitor     _monitor_progress alone, fed arbitrary lines, in the  *)
(*                   variants of blender_engine_original.py and            *)
(*                   blender_engine_fixed_part2.py                         *)
(*   SpecDevice      get_best_device of src/core/cuda_accelerator.py over  *)
(*                   the device lists the detection can build              *)
(*   SpecEstimate    estimate_render_time of the engine                    *)
(***************************************************************************)
EXTENDS Integers, Sequences, FiniteSets, TLC

\* ------------------------------------------------------------------ bounds
\* number of /api/start-render requests served in one behaviour
MaxRuns == 2
\* largest frameEnd - frameStart + 1 a web request asks for
MaxWebFrames == 2
\* largest number of frame files a desktop render leaves in the output folder
MaxGuiFrames == 2
\* number of threads that call render() on one engine
MaxCallers == 2
\* largest frame number of a render() frame range
MaxFrameNo == 2
\* number of output lines a Blender child writes
MaxLines == 2
\* largest frame number in a line fed to the progress monitor alone
MaxFeedFrame == 6
\* number of lines fed to the progress monitor alone
MaxFeed == 3
\* largest number of GPU devices in the accelerator's device list
MaxDevices == 2
\* largest measured time of the test render, in seconds
MaxTestTime == 10

\* ------------------------------------------------------------- variables
VARIABLES
    render_status,  \* src/main.py: the global render_status dict
    runs,           \* src/main.py: one run_render_pipeline thread per request
    gui,            \* src/main_gui_enhanced.py: the render_worker thread
    \* BlenderRenderEngine (src/core/blender_engine_original.py)
    is_running,       \* self.is_running
    process,          \* self.process: 0 for None, else an index into procs
    stats,            \* self.stats
    temp_script_path, \* self.temp_script_path: 0 for None, else a file id
    temp_files,       \* the temporary script files that exist
    procs,            \* every child process Popen created, in creation order
    callers,          \* the threads that call render()
    monitors,         \* the _monitor_progress thread of each render() call
    canceller,        \* the thread that calls cancel_render()
    last_progress,    \* the last value handed to the progress callback
    variant,          \* which _monitor_progress is in use
    seen,             \* frames_rendered after each line fed to the monitor
    accel,            \* src/core/cuda_accelerator.py: a CUDAAccelerator
    estimator         \* a call of BlenderRenderEngine.estimate_render_time

webVars == <<render_status, runs>>
guiVars == <<gui>>
engineVars == <<is_running, process, stats, temp_script_path, temp_files, procs,
                callers, monitors, canceller, last_progress, variant, seen>>
vars == <<render_status, runs, gui, is_running, process, stats, temp_script_path,
          temp_files, procs, callers, monitors, canceller, last_progress, variant, seen,
          accel, estimator>>

\* what the web pipeline leaves alone
nonWebVars == <<gui, engineVars, accel, estimator>>
\* what the desktop pipeline leaves alone
nonGuiVars == <<render_status, runs, engineVars, accel, estimator>>
\* what the engine leaves alone
nonEngineVars == <<render_status, runs, gui, accel, estimator>>
\* what device selection leaves alone
nonAccelVars == <<render_status, runs, gui, engineVars, estimator>>
\* what the render time estimate leaves alone
nonEstimatorVars == <<render_status, runs, gui, engineVars, accel>>

RunIds == 1..MaxRuns

\* ------------------------------------------------------- helper operators
\* progress = (n / d) * 100 of the source is a float; the model keeps its
\* integer part, which decides every comparison with 99 and 100 made here
\* (n/d*100 >= 100 iff n >= d).
Percent(n, d) == (n * 100) \div d

Last(s) == s[Len(s)]

\* s with x appended unless x already is its last element
AppendNew(s, x) == IF Len(s) > 0 /\ Last(s) = x THEN s ELSE Append(s, x)

\* ======================================================================
\* Web pipeline (src/main.py)
\* ======================================================================
StageOrder == <<"render", "denoise", "upscale", "interpolate", "encode">>

\* the step name each stage passes to progress_callback
StepOf(stage) ==
    CASE stage = "render" -> "rendering"
      [] stage = "denoise" -> "denoising"
      [] stage = "upscale" -> "upscaling"
      [] stage = "interpolate" -> "interpolating"
      [] stage = "encode" -> "encoding"

\* the directory a stage writes its frames to
DirOf(stage) ==
    CASE stage = "render" -> "output"
      [] stage = "denoise" -> "denoised"
      [] stage = "upscale" -> "upscaled"
      [] stage = "interpolate" -> "interpolated"
      [] stage = "encode" -> "output"

Codecs == {"prores_ks", "qtrle", "h264"}

\* the settings object of a start-render request
WebSettings ==
    [ frame_count : 1..MaxWebFrames,
      enable_upscale : BOOLEAN,
      enable_interpolation : BOOLEAN,
      denoise_method : {"OIDN", "FastDVDnet"},
      codec : {"prores_ks", "h264"} ]

NoSettings ==
    [ frame_count |-> 1, enable_upscale |-> FALSE,
      enable_interpolation |-> FALSE, denoise_method |-> "OIDN",
      codec |-> "prores_ks" ]

\* a pipeline thread that has not been created
UnbornRun ==
    [ pc |-> "unborn",          \* unborn | one of StageOrder | done
      sub |-> "call",           \* call: about to call the stage function
                                \* loop: inside the stage, before a tool run
                                \* child: waiting for the stage's tool
      settings |-> NoSettings,
      child |-> "none",         \* none | alive | exit0 | exit1
      files |-> 0,              \* render_*.png files in output_dir
      current_frame |-> 0,      \* blender_render's current_frame
      i |-> 0,                  \* files done by the running per-file stage
      total |-> 0,              \* files the running per-file stage loops over
      current_dir |-> "output",
      launched |-> <<>>,        \* stages whose function was called, in order
      inputs |-> <<>>,          \* what each called stage was given to read
      writes |-> {},            \* <<stage, directory>>: the stage created,
                                \* changed or deleted a file in the directory
      succeeded |-> {},         \* stages that returned normally
      steps |-> <<>>,           \* steps this run wrote, repeats collapsed
      reported |-> [step |-> "none", progress |-> 0],
      failed |-> FALSE,         \* a tool exited non-zero or a stage raised
      cancelled |-> FALSE,      \* cancel_render was served during the run
      launchedAfterCancel |-> FALSE,
      reportedAfterCancel |-> FALSE,
      outcome |-> "none" ]      \* none | complete | error

InProgress(run) == run.pc \notin {"unborn", "done"}

\* progress_callback of main.py: render_status.update(step, progress, message)
progress_callback(status, step, progress, message) ==
    [status EXCEPT !.step = step, !.progress = progress, !.message = message]

\* the run's own record of a progress_callback / render_status.update call
Reported(run, step, progress) ==
    [run EXCEPT !.steps = AppendNew(run.steps, step),
                !.reported = [step |-> step, progress |-> progress],
                !.reportedAfterCancel = run.reportedAfterCancel \/ run.cancelled]

\* InputOf with every stage pointed at the render output directory
InputOfOutputDir(run, stage) ==
    IF stage = "render" THEN "blend" ELSE "output"

\* the first argument run_render_pipeline passes to a stage function
InputOf(run, stage) ==
    CASE stage = "render" -> "blend"
      [] stage = "denoise" -> "output"
      [] OTHER -> run.current_dir

\* `stage` creates, changes or deletes a file in directory dir
Wrote(run, stage, dir) == [run EXCEPT !.writes = @ \cup {<<stage, dir>>}]

\* where the per-file loop of a stage puts its intermediate files: OIDN
\* denoising saves f.rgb.png, f.a.png and f.out.rgb.png next to f, the input
\* file, and removes them; the other tools write out_f only
WorkDir(run, stage) ==
    IF stage = "denoise" /\ run.settings.denoise_method = "OIDN"
    THEN Last(run.inputs) ELSE DirOf(stage)

\* a stage function is called
Called(run, stage) ==
    [run EXCEPT !.launched = Append(run.launched, stage),
                !.inputs = Append(run.inputs, InputOf(run, stage)),
                !.launchedAfterCancel = run.launchedAfterCancel \/ run.cancelled]

\* the except branch of run_render_pipeline
RunFailed(run) ==
    [Reported(run, "error", 0) EXCEPT
        !.pc = "done", !.sub = "call", !.child = "none",
        !.failed = TRUE, !.outcome = "error"]

\* NextStage with the two optional stages called in the opposite order
NextStageSwapped(run, stage) ==
    CASE stage = "render" ->
            IF run.files > 0 THEN "denoise"
            ELSE IF run.settings.enable_interpolation THEN "interpolate"
            ELSE IF run.settings.enable_upscale THEN "upscale"
            ELSE "encode"
      [] stage = "denoise" ->
            IF run.settings.enable_interpolation THEN "interpolate"
            ELSE IF run.settings.enable_upscale THEN "upscale"
            ELSE "encode"
      [] stage = "interpolate" ->
            IF run.settings.enable_upscale THEN "upscale" ELSE "encode"
      [] stage = "upscale" -> "encode"
      [] stage = "encode" -> "done"

\* the stage the pipeline calls after `stage` returned, given what is enabled
NextStage(run, stage) ==
    CASE stage = "render" ->
            IF run.files > 0 THEN "denoise"
            ELSE IF run.settings.enable_upscale THEN "upscale"
            ELSE IF run.settings.enable_interpolation THEN "interpolate"
            ELSE "encode"
      [] stage = "denoise" ->
            IF run.settings.enable_upscale THEN "upscale"
            ELSE IF run.settings.enable_interpolation THEN "interpolate"
            ELSE "encode"
      [] stage = "upscale" ->
            IF run.settings.enable_interpolation THEN "interpolate" ELSE "encode"
      [] stage = "interpolate" -> "encode"
      [] stage = "encode" -> "done"

\* `stage` returned normally: hand its directory on and move to the next call
StageReturned(run, stage) ==
    [run EXCEPT !.pc = NextStage(run, stage), !.sub = "call", !.child = "none",
                !.i = 0, !.total = 0,
                !.succeeded = run.succeeded \cup {stage},
                !.current_dir = IF stage \in {"render", "encode"}
                                THEN run.current_dir ELSE DirOf(stage)]

WebInit ==
    /\ render_status = [step |-> "idle", progress |-> 0, message |-> "ready",
                        job_id |-> 0, preview_image |-> "none"]
    /\ runs = [r \in RunIds |-> UnbornRun]

\* POST /api/start-render: requests are numbered in arrival order
start_render(r, fieldsOk, s) ==
    /\ runs[r].pc = "unborn"
    /\ \A q \in RunIds : q < r => runs[q].pc # "unborn"
    /\ IF fieldsOk
       THEN /\ render_status' = [render_status EXCEPT !.job_id = r]
            /\ runs' = [runs EXCEPT ![r] =
                            [UnbornRun EXCEPT !.pc = "render", !.settings = s]]
       ELSE UNCHANGED webVars
    /\ UNCHANGED nonWebVars

\* POST /api/cancel-render
cancel_render ==
    /\ render_status' = progress_callback(render_status, "idle", 0, "cancelled")
    /\ runs' = [r \in RunIds |->
                  IF InProgress(runs[r])
                  THEN [runs[r] EXCEPT !.cancelled = TRUE]
                  ELSE runs[r]]
    /\ UNCHANGED nonWebVars

\* blender_render up to Popen: the first callback and the child's launch
blender_render_start(r, raises) ==
    /\ runs[r].pc = "render" /\ runs[r].sub = "call"
    /\ LET c == Wrote(Called(runs[r], "render"), "render", "output") IN
       IF raises
       THEN /\ runs' = [runs EXCEPT ![r] = RunFailed(Reported(c, "rendering", 0))]
            /\ render_status' = progress_callback(render_status, "error", 0, "error")
       ELSE /\ runs' = [runs EXCEPT ![r] =
                  [Reported(c, "rendering", 0) EXCEPT !.sub = "child", !.child = "alive"]]
            /\ render_status' = progress_callback(render_status, "rendering", 0, "start")
    /\ UNCHANGED nonWebVars

\* the Blender child writes one more render_*.png
render_child_writes(r) ==
    /\ runs[r].pc = "render" /\ runs[r].child = "alive"
    /\ runs[r].files < runs[r].settings.frame_count
    /\ runs' = [runs EXCEPT ![r].files = @ + 1]
    /\ UNCHANGED render_status
    /\ UNCHANGED nonWebVars

\* a child process ends
child_exits(r, code) ==
    /\ runs[r].pc = "render" /\ runs[r].child = "alive"
    /\ runs' = [runs EXCEPT ![r].child = IF code = 0 THEN "exit0" ELSE "exit1"]
    /\ UNCHANGED render_status
    /\ UNCHANGED nonWebVars

\* one pass of blender_render's polling loop that finds new files
blender_render_poll(r) ==
    /\ runs[r].pc = "render" /\ runs[r].child = "alive"
    /\ runs[r].files > runs[r].current_frame
    /\ LET progress == Percent(runs[r].files, runs[r].settings.frame_count) IN
       /\ runs' = [runs EXCEPT ![r] =
             [Reported(runs[r], "rendering", progress) EXCEPT
                 !.current_frame = runs[r].files]]
       /\ render_status' =
             progress_callback(render_status, "rendering", progress, "frame")
    /\ UNCHANGED nonWebVars

\* blender_render after the loop: returncode decides
blender_render_end(r) ==
    /\ runs[r].pc = "render" /\ runs[r].child \in {"exit0", "exit1"}
    /\ IF runs[r].child = "exit0"
       THEN /\ runs' = [runs EXCEPT ![r] =
                  StageReturned(Reported(runs[r], "rendering", 100), "render")]
            /\ render_status' =
                  progress_callback(render_status, "rendering", 100, "rendered")
       ELSE /\ runs' = [runs EXCEPT ![r] = RunFailed(runs[r])]
            /\ render_status' = progress_callback(render_status, "error", 0, "error")
    /\ UNCHANGED nonWebVars

\* denoise_pngs / upscale_pngs are called: makedirs and the glob of the input
per_file_stage_call(r) ==
    /\ runs[r].pc \in {"denoise", "upscale"} /\ runs[r].sub = "call"
    /\ LET c == Wrote(Called(runs[r], runs[r].pc), runs[r].pc, DirOf(runs[r].pc)) IN
       runs' = [runs EXCEPT ![r] =
          IF c.files = 0
          THEN StageReturned(c, c.pc)
          ELSE [c EXCEPT !.sub = "loop", !.i = 0, !.total = c.files]]
    /\ UNCHANGED render_status
    /\ UNCHANGED nonWebVars

\* subprocess.run(cmd, check=True) of one file starts (or the body raises)
per_file_tool_start(r, raises) ==
    /\ runs[r].pc \in {"denoise", "upscale"} /\ runs[r].sub = "loop"
    /\ runs[r].i < runs[r].total
    /\ LET w == Wrote(runs[r], runs[r].pc, WorkDir(runs[r], runs[r].pc)) IN
       IF raises
       THEN /\ runs' = [runs EXCEPT ![r] = RunFailed(w)]
            /\ render_status' = progress_callback(render_status, "error", 0, "error")
       ELSE /\ runs' = [runs EXCEPT ![r] = [w EXCEPT !.sub = "child", !.child = "alive"]]
            /\ UNCHANGED render_status
    /\ UNCHANGED nonWebVars

\* the tool of one file exits; check=True raises on a non-zero code
per_file_tool_exit(r, code) ==
    /\ runs[r].pc \in {"denoise", "upscale"} /\ runs[r].sub = "child"
    /\ runs[r].child = "alive"
    /\ IF code # 0
       THEN /\ runs' = [runs EXCEPT ![r] = RunFailed(runs[r])]
            /\ render_status' = progress_callback(render_status, "error", 0, "error")
       ELSE LET n == runs[r].i + 1
                progress == Percent(n, runs[r].total)
                rep == [Reported(runs[r], StepOf(runs[r].pc), progress) EXCEPT
                           !.i = n, !.sub = "loop", !.child = "none"]
            IN /\ runs' = [runs EXCEPT ![r] =
                     IF n = rep.total THEN StageReturned(rep, rep.pc) ELSE rep]
               /\ render_status' =
                     [progress_callback(render_status, StepOf(runs[r].pc),
                                        progress, "file")
                        EXCEPT !.preview_image =
                           IF n = rep.total /\ rep.pc = "denoise"
                           THEN "set" ELSE @]
    /\ UNCHANGED nonWebVars

\* interpolate_pngs / pngs_to_video are called: the codec check of
\* pngs_to_video, the 50% callback, and the tool's launch
single_tool_start(r, raises) ==
    /\ runs[r].pc \in {"interpolate", "encode"} /\ runs[r].sub = "call"
    /\ LET called == Called(runs[r], runs[r].pc)
           badCodec == called.pc = "encode"
                       /\ called.settings.codec \notin {"prores_ks", "qtrle"}
           \* interpolate_pngs makes its directory first; ffmpeg writes
           \* output.mov into output_dir
           c == IF badCodec THEN called ELSE Wrote(called, called.pc, DirOf(called.pc))
       IN
       IF badCodec
       THEN /\ runs' = [runs EXCEPT ![r] = RunFailed(c)]
            /\ render_status' = progress_callback(render_status, "error", 0, "error")
       ELSE IF raises
       THEN /\ runs' = [runs EXCEPT ![r] = RunFailed(Reported(c, StepOf(c.pc), 50))]
            /\ render_status' = progress_callback(render_status, "error", 0, "error")
       ELSE /\ runs' = [runs EXCEPT ![r] =
                  [Reported(c, StepOf(c.pc), 50) EXCEPT !.sub = "child", !.child = "alive"]]
            /\ render_status' =
                  progress_callback(render_status, StepOf(c.pc), 50, "running")
    /\ UNCHANGED nonWebVars

\* the tool exits; after encode the pipeline writes the complete status
single_tool_exit(r, code) ==
    /\ runs[r].pc \in {"interpolate", "encode"} /\ runs[r].sub = "child"
    /\ runs[r].child = "alive"
    /\ IF code # 0
       THEN /\ runs' = [runs EXCEPT ![r] = RunFailed(runs[r])]
            /\ render_status' = progress_callback(render_status, "error", 0, "error")
       ELSE LET ret == StageReturned(Reported(runs[r], StepOf(runs[r].pc), 100),
                                     runs[r].pc)
            IN IF runs[r].pc = "encode"
               THEN /\ runs' = [runs EXCEPT ![r] =
                          [Reported(ret, "complete", 100) EXCEPT !.outcome = "complete"]]
                    /\ render_status' =
                          progress_callback(render_status, "complete", 100, "complete")
               ELSE /\ runs' = [runs EXCEPT ![r] = ret]
                    /\ render_status' =
                          progress_callback(render_status, "interpolating", 100, "done")
    /\ UNCHANGED nonWebVars

\* ======================================================================
\* Desktop pipeline (src/main_gui_enhanced.py)
\* ======================================================================
GuiSettings ==
    [ enhanced_mode : BOOLEAN,
      enableDenoise : BOOLEAN,
      enableUpscale : BOOLEAN,
      enableInterpolation : BOOLEAN ]

GuiIdle ==
    [ pc |-> "idle",        \* idle | render | denoise | upscale | interpolate
                            \* | ask_video | encode | done
      sub |-> "call",       \* call | loop | child, as in the web pipeline
      settings |-> [enhanced_mode |-> FALSE, enableDenoise |-> FALSE,
                    enableUpscale |-> FALSE, enableInterpolation |-> FALSE],
      child |-> "none",     \* none | alive
      frames |-> 0,         \* length of the frame list handed from stage to stage
      i |-> 0,              \* frames the upscale loop has handled
      launched |-> <<>>,    \* stages started, in order
      temp_dirs |-> {},     \* working directories of the interpolation that exist
      failed |-> FALSE,     \* a stage's tool exited non-zero, timed out or raised
      launchedAfterFailure |-> FALSE,
      outcome |-> "none" ]  \* none | error | no_files | rendered | complete
                            \* | video_error

GuiInit == gui = GuiIdle

GuiCalled(g, stage) ==
    [g EXCEPT !.launched = Append(g.launched, stage),
              !.launchedAfterFailure = g.launchedAfterFailure \/ g.failed]

\* the stage apply_ai_processing (then render_worker) turns to after `stage`
GuiNextStage(g, stage) ==
    CASE stage = "render" ->
            IF ~g.settings.enhanced_mode THEN "ask_video"
            ELSE IF g.settings.enableDenoise THEN "denoise"
            ELSE IF g.settings.enableUpscale THEN "upscale"
            ELSE IF g.settings.enableInterpolation THEN "interpolate"
            ELSE "ask_video"
      [] stage = "denoise" ->
            IF g.settings.enableUpscale THEN "upscale"
            ELSE IF g.settings.enableInterpolation THEN "interpolate"
            ELSE "ask_video"
      [] stage = "upscale" ->
            IF g.settings.enableInterpolation THEN "interpolate" ELSE "ask_video"
      [] stage = "interpolate" -> "ask_video"

GuiGoOn(g, stage) ==
    [g EXCEPT !.pc = GuiNextStage(g, stage), !.sub = "call", !.child = "none",
              !.i = 0]

GuiDone(g, outcome) ==
    [g EXCEPT !.pc = "done", !.sub = "call", !.child = "none", !.outcome = outcome]

\* render_worker up to Popen: Blender is looked up and launched
render_worker_start(s, found, raises) ==
    /\ gui.pc = "idle"
    /\ LET g == [gui EXCEPT !.settings = s] IN
       gui' = IF ~found THEN GuiDone(g, "error")
              ELSE IF raises
              THEN GuiDone([GuiCalled(g, "render") EXCEPT !.failed = TRUE], "error")
              ELSE [GuiCalled(g, "render") EXCEPT !.pc = "render", !.sub = "child",
                                                  !.child = "alive"]
    /\ UNCHANGED nonGuiVars

\* Blender exits; render_worker globs the frame files it left
render_worker_result(code, n) ==
    /\ gui.pc = "render" /\ gui.child = "alive"
    /\ gui' = IF code # 0 THEN GuiDone([gui EXCEPT !.failed = TRUE], "error")
              ELSE IF n = 0 THEN GuiDone(gui, "no_files")
              ELSE GuiGoOn([gui EXCEPT !.frames = n], "render")
    /\ UNCHANGED nonGuiVars

\* apply_fastdvdnet_denoise: done in-process with OpenCV, no tool is run
apply_fastdvdnet_denoise ==
    /\ gui.pc = "denoise"
    /\ gui' = GuiGoOn(GuiCalled(gui, "denoise"), "denoise")
    /\ UNCHANGED nonGuiVars

\* apply_realesrgan_upscale is called: is the executable there?
apply_realesrgan_upscale(exists) ==
    /\ gui.pc = "upscale" /\ gui.sub = "call"
    /\ gui' = IF ~exists THEN GuiGoOn(gui, "upscale")
              ELSE [GuiCalled(gui, "upscale") EXCEPT !.sub = "loop", !.i = 0]
    /\ UNCHANGED nonGuiVars

\* subprocess.run of RealESRGAN on one frame starts; any exception other than
\* TimeoutExpired ends the stage in its outer except, which returns the frames
realesrgan_start(raises) ==
    /\ gui.pc = "upscale" /\ gui.sub = "loop" /\ gui.i < gui.frames
    /\ gui' = IF raises THEN GuiGoOn([gui EXCEPT !.failed = TRUE], "upscale")
              ELSE [gui EXCEPT !.sub = "child", !.child = "alive"]
    /\ UNCHANGED nonGuiVars

\* RealESRGAN ends on one frame (code 2 stands for TimeoutExpired): a failed
\* frame is replaced by its source frame and the loop goes on
realesrgan_exit(code) ==
    /\ gui.pc = "upscale" /\ gui.sub = "child" /\ gui.child = "alive"
    /\ LET g == [gui EXCEPT !.failed = gui.failed \/ code # 0, !.i = gui.i + 1,
                            !.sub = "loop", !.child = "none"] IN
       gui' = IF g.i = g.frames THEN GuiGoOn(g, "upscale") ELSE g
    /\ UNCHANGED nonGuiVars

\* the directories apply_rife_interpolation makes before it runs RIFE
RifeDirs == {"temp_interpolation", "temp_interpolated"}

\* apply_rife_interpolation up to subprocess.run: the two working directories
\* are made, then the launch of RIFE may raise
apply_rife_interpolation(exists, raises) ==
    /\ gui.pc = "interpolate" /\ gui.sub = "call"
    /\ LET g == [GuiCalled(gui, "interpolate") EXCEPT
                    !.temp_dirs = gui.temp_dirs \cup RifeDirs] IN
       gui' = IF ~exists THEN GuiGoOn(gui, "interpolate")
              ELSE IF raises
              THEN GuiGoOn([g EXCEPT !.failed = TRUE], "interpolate")
              ELSE [g EXCEPT !.sub = "child", !.child = "alive"]
    /\ UNCHANGED nonGuiVars

\* RIFE ends: its frames are used, and temp_interpolation is removed, only if
\* it exited 0 and left some frames in temp_interpolated
rife_exit(code, produced) ==
    /\ gui.pc = "interpolate" /\ gui.sub = "child" /\ gui.child = "alive"
    /\ LET g == [gui EXCEPT !.failed = gui.failed \/ code # 0] IN
       gui' = IF code = 0 /\ produced
              THEN GuiGoOn([g EXCEPT !.frames = 2 * g.frames,
                                     !.temp_dirs = g.temp_dirs \ {"temp_interpolation"}],
                           "interpolate")
              ELSE GuiGoOn(g, "interpolate")
    /\ UNCHANGED nonGuiVars

\* the "create a video?" dialog and create_video up to the ffmpeg launch
create_video(yes, raises) ==
    /\ gui.pc = "ask_video"
    /\ gui' = IF ~yes THEN GuiDone(gui, "rendered")
              ELSE IF raises
              THEN GuiDone([GuiCalled(gui, "encode") EXCEPT !.failed = TRUE],
                           "video_error")
              ELSE [GuiCalled(gui, "encode") EXCEPT !.pc = "encode", !.sub = "child",
                                                    !.child = "alive"]
    /\ UNCHANGED nonGuiVars

\* ffmpeg ends
ffmpeg_exit(code) ==
    /\ gui.pc = "encode" /\ gui.child = "alive"
    /\ gui' = IF code = 0 THEN GuiDone(gui, "complete")
              ELSE GuiDone([gui EXCEPT !.failed = TRUE], "video_error")
    /\ UNCHANGED nonGuiVars

NextGui ==
    \/ \E s \in GuiSettings, found \in BOOLEAN, raises \in BOOLEAN :
          render_worker_start(s, found, raises)
    \/ \E code \in {0, 1}, n \in 0..MaxGuiFrames : render_worker_result(code, n)
    \/ apply_fastdvdnet_denoise
    \/ \E exists \in BOOLEAN : apply_realesrgan_upscale(exists)
    \/ \E raises \in BOOLEAN : realesrgan_start(raises)
    \/ \E code \in {0, 1, 2} : realesrgan_exit(code)
    \/ \E exists \in BOOLEAN, raises \in BOOLEAN : apply_rife_interpolation(exists, raises)
    \/ \E code \in {0, 1}, produced \in BOOLEAN : rife_exit(code, produced)
    \/ \E yes \in BOOLEAN, raises \in BOOLEAN : create_video(yes, raises)
    \/ \E code \in {0, 1} : ffmpeg_exit(code)


\* ======================================================================
\* BlenderRenderEngine (src/core/blender_engine_original.py)
\* ======================================================================
Callers == 1..MaxCallers

Max(a, b) == IF a >= b THEN a ELSE b
Min(a, b) == IF a <= b THEN a ELSE b

\* ---- output lines of the child.  A line is described by what the monitor's
\* regular expressions find in it: the number after "Fra:", in "Saved:
\* '...render_<n>.'", in "Rendering <n> / <m>" and after "Frame " (-1: the
\* pattern does not match), and whether it holds ERROR/Error, WARNING/Warning.
NoMatch == -1

Line(fra, saved, rendering, frame, error, warning) ==
    [fra |-> fra, saved |-> saved, rendering |-> rendering, frame |-> frame,
     error |-> error, warning |-> warning]

FraLine(n) == Line(n, NoMatch, NoMatch, NoMatch, FALSE, FALSE)
FrameLine(n) == Line(NoMatch, NoMatch, NoMatch, n, FALSE, FALSE)
ErrorLine == Line(NoMatch, NoMatch, NoMatch, NoMatch, TRUE, FALSE)
WarningLine == Line(NoMatch, NoMatch, NoMatch, NoMatch, FALSE, TRUE)
PlainLine == Line(NoMatch, NoMatch, NoMatch, NoMatch, FALSE, FALSE)

\* ExtractFrame taking the last pattern that matches
ExtractFrameLast(line) ==
    IF line.frame # NoMatch THEN line.frame
    ELSE IF line.rendering # NoMatch THEN line.rendering
    ELSE IF line.saved # NoMatch THEN line.saved
    ELSE line.fra

\* frame_patterns, tried in order; the first that matches gives current_frame
ExtractFrame(line) ==
    IF line.fra # NoMatch THEN line.fra
    ELSE IF line.saved # NoMatch THEN line.saved
    ELSE IF line.rendering # NoMatch THEN line.rendering
    ELSE line.frame

\* self.stats.get('frame_start', 1): render() never stores frame_start in stats
StatsFrameStart == 1

NewStats(total) ==
    [frames_rendered |-> 0, total_frames |-> total, ended |-> FALSE,
     errors |-> <<>>, warnings |-> <<>>]

NewMonitor ==
    [ pc |-> "none", target |-> 0, last_frame |-> 0, timing |-> FALSE,
      \* the last line handled: its frame number, frames_rendered before and after
      read_frame |-> NoMatch, before |-> 0, after |-> 0,
      handled |-> FALSE,        \* a line was handled
      read_line |-> PlainLine ] \* the last line handled

\* MonitorFrame counting the accepted lines instead of taking the frame number
MonitorFrameCounting(v, mon, st, line) ==
    LET current_frame == ExtractFrame(line)
        accept == /\ current_frame # NoMatch
                  /\ IF v = "original" THEN current_frame >= mon.last_frame
                                       ELSE current_frame > mon.last_frame
        rendered == st.frames_rendered + 1
    IN IF ~accept THEN [mon |-> mon, stats |-> st, report |-> -1]
       ELSE [mon |-> [mon EXCEPT !.last_frame = current_frame,
                                 !.timing = mon.timing \/ st.total_frames > 0],
             stats |-> [st EXCEPT !.frames_rendered = rendered],
             report |-> IF st.total_frames > 0
                        THEN Min(Percent(rendered, st.total_frames), 99)
                        ELSE -1]

\* MonitorFrame without the last_frame guard and without max()
MonitorFrameLatest(v, mon, st, line) ==
    LET current_frame == ExtractFrame(line)
        rendered == current_frame - StatsFrameStart + 1
    IN IF current_frame = NoMatch THEN [mon |-> mon, stats |-> st, report |-> -1]
       ELSE [mon |-> [mon EXCEPT !.last_frame = current_frame,
                                 !.timing = mon.timing \/ st.total_frames > 0],
             stats |-> [st EXCEPT !.frames_rendered = rendered],
             report |-> IF st.total_frames > 0
                        THEN Min(Percent(rendered, st.total_frames), 99)
                        ELSE -1]

\* the frame part of one pass of _monitor_progress over `line`.
\* Gives the monitor's locals, the stats and the value reported (-1: none).
MonitorFrame(v, mon, st, line) ==
    LET current_frame == ExtractFrame(line)
        accept == /\ current_frame # NoMatch
                  /\ IF v = "original" THEN current_frame >= mon.last_frame
                                       ELSE current_frame > mon.last_frame
        frame_offset == current_frame - StatsFrameStart + 1
        rendered == IF v = "original" THEN Max(st.frames_rendered, frame_offset)
                                      ELSE frame_offset
    IN IF ~accept THEN [mon |-> mon, stats |-> st, report |-> -1]
       ELSE [mon |-> [mon EXCEPT !.last_frame = current_frame,
                                 !.timing = mon.timing \/ st.total_frames > 0],
             stats |-> [st EXCEPT !.frames_rendered = rendered],
             report |-> IF st.total_frames > 0
                        THEN Min(Percent(rendered, st.total_frames), 99)
                        ELSE -1]

\* the error / warning part of the same pass
MonitorLog(st, line) ==
    IF line.error THEN [st EXCEPT !.errors = Append(st.errors, line)]
    ELSE IF line.warning THEN [st EXCEPT !.warnings = Append(st.warnings, line)]
    ELSE st

\* one pass of _monitor_progress over a line that was read
MonitorLine(v, mon, st, line) ==
    LET f == MonitorFrame(v, mon, st, line) IN
    [f EXCEPT !.stats = MonitorLog(f.stats, line),
              !.mon = [f.mon EXCEPT !.handled = TRUE, !.read_line = line,
                                    !.read_frame = ExtractFrame(line),
                                    !.before = st.frames_rendered,
                                    !.after = f.stats.frames_rendered]]

EngineSettings == [frame_start : 1..MaxFrameNo, frame_end : 1..MaxFrameNo]

\* the lines a Blender child of the engine model writes
EngineLines == {FraLine(n) : n \in 1..MaxFrameNo} \cup {ErrorLine}

IdleCaller ==
    [ pc |-> "idle",       \* idle | prepared | launch | started | wait | done
      settings |-> [frame_start |-> 1, frame_end |-> 1],
      launched |-> 0,      \* the child this call created (0: none)
      waiting_on |-> 0,    \* the child this call waits for
      result |-> "none",   \* none | true | false | raised
      log |-> "none",      \* the last message of this call: already_running |
                           \* no_blend | exception | completed | failed
      return_code |-> 0,
      returned_stats |-> NewStats(0) ]   \* self.stats when the call returned

IdleCanceller ==
    [ pc |-> "idle",          \* idle | wait | killed
      calls |-> <<>>,         \* terminate / kill, as the last call issued them
      target |-> 0,           \* self.process of the last call
      alive_at_timeout |-> FALSE,  \* the child was alive when wait(10) expired
      during |-> 0,           \* the render() call in progress when it was called
      returned |-> "none" ]   \* none | true | false

NewProc(c) ==
    [ state |-> "alive",   \* alive | exited
      code |-> 0, out |-> <<>>, written |-> 0,
      frames |-> {},        \* the frames it wrote a completion line for
      terminated |-> FALSE, \* terminate() or kill() was called on it
      owner |-> c ]

EngineInit ==
    /\ is_running = FALSE
    /\ process = 0
    /\ stats = NewStats(0)
    /\ temp_script_path = 0
    /\ temp_files = {}
    /\ procs = <<>>
    /\ callers = [c \in Callers |-> IdleCaller]
    /\ monitors = [c \in Callers |-> NewMonitor]
    /\ canceller = IdleCanceller
    /\ last_progress = -1
    /\ variant = "original"
    /\ seen = <<>>

\* _cleanup_temp_files: <<temp_script_path, temp_files>> afterwards
Cleanup(path, files) ==
    IF path # 0 /\ path \in files THEN <<0, files \ {path}>> ELSE <<path, files>>

\* RenderRaised without the finally branch's is_running = False
RenderRaisedKeepsRunning(c) ==
    /\ callers' = [callers EXCEPT ![c].pc = "done", ![c].result = "false",
                                  ![c].log = "exception",
                                  ![c].returned_stats =
                                      [stats EXCEPT !.errors = Append(@, "exception")]]
    /\ stats' = [stats EXCEPT !.errors = Append(@, "exception")]
    /\ is_running' = is_running
    /\ temp_script_path' = Cleanup(temp_script_path, temp_files)[1]
    /\ temp_files' = Cleanup(temp_script_path, temp_files)[2]

\* the except and finally branches of render()
RenderRaised(c) ==
    /\ callers' = [callers EXCEPT ![c].pc = "done", ![c].result = "false",
                                  ![c].log = "exception",
                                  ![c].returned_stats =
                                      [stats EXCEPT !.errors = Append(@, "exception")]]
    /\ stats' = [stats EXCEPT !.errors = Append(@, "exception")]
    /\ is_running' = FALSE
    /\ temp_script_path' = Cleanup(temp_script_path, temp_files)[1]
    /\ temp_files' = Cleanup(temp_script_path, temp_files)[2]

\* render() up to os.makedirs: the re-entrancy and blend-file checks
render_enter(c, s, blendExists, makedirsRaises) ==
    /\ callers[c].pc = "idle"
    /\ callers' = [callers EXCEPT ![c] =
          IF is_running
          THEN [@ EXCEPT !.pc = "done", !.settings = s, !.result = "false",
                         !.log = "already_running", !.returned_stats = stats]
          ELSE IF ~blendExists
          THEN [@ EXCEPT !.pc = "done", !.settings = s, !.result = "false",
                         !.log = "no_blend", !.returned_stats = stats]
          ELSE IF makedirsRaises
          THEN [@ EXCEPT !.pc = "done", !.settings = s, !.result = "raised",
                         !.returned_stats = stats]
          ELSE [@ EXCEPT !.pc = "prepared", !.settings = s]]
    /\ UNCHANGED <<is_running, process, stats, temp_script_path, temp_files, procs,
                   monitors, canceller, last_progress, variant, seen>>
    /\ UNCHANGED nonEngineVars

\* render(): create_render_script, the statistics, is_running = True
render_prepare(c, raises) ==
    /\ callers[c].pc = "prepared"
    /\ IF raises
       THEN RenderRaised(c)
       ELSE /\ temp_script_path' = c
            /\ temp_files' = temp_files \cup {c}
            /\ stats' = NewStats(callers[c].settings.frame_end
                                 - callers[c].settings.frame_start + 1)
            /\ is_running' = TRUE
            /\ callers' = [callers EXCEPT ![c].pc = "launch"]
    /\ UNCHANGED <<process, procs, monitors, canceller, last_progress, variant, seen>>
    /\ UNCHANGED nonEngineVars

\* render(): Popen and the start of the monitor thread
render_popen(c, raises) ==
    /\ callers[c].pc = "launch"
    /\ IF raises
       THEN /\ RenderRaised(c)
            /\ UNCHANGED <<process, procs, monitors>>
       ELSE /\ procs' = Append(procs, NewProc(c))
            /\ process' = Len(procs) + 1
            /\ monitors' = [monitors EXCEPT ![c] = [NewMonitor EXCEPT !.pc = "check"]]
            /\ callers' = [callers EXCEPT ![c].pc = "started",
                                          ![c].launched = Len(procs) + 1]
            /\ UNCHANGED <<is_running, stats, temp_script_path, temp_files>>
    /\ UNCHANGED <<canceller, last_progress, variant, seen>>
    /\ UNCHANGED nonEngineVars

\* render(): self.process.wait() is entered on whatever self.process is now
render_wait(c) ==
    /\ callers[c].pc = "started"
    /\ callers' = [callers EXCEPT ![c].pc = "wait", ![c].waiting_on = process]
    /\ UNCHANGED <<is_running, process, stats, temp_script_path, temp_files, procs,
                   monitors, canceller, last_progress, variant, seen>>
    /\ UNCHANGED nonEngineVars

\* render() after wait(): what the return code rc makes of the statistics st:
\* the value returned, the message logged, the statistics, the progress
\* reported (-1: none)
RenderOutcome(rc, st) ==
    [ result |-> IF rc = 0 THEN "true" ELSE "false",
      log |-> IF rc = 0 THEN "completed" ELSE "failed",
      stats |-> [st EXCEPT !.ended = TRUE],
      report |-> IF rc = 0 THEN 100 ELSE -1 ]

\* render(): wait() returned; the return code decides; finally
render_return(c) ==
    /\ callers[c].pc = "wait"
    /\ procs[callers[c].waiting_on].state = "exited"
    /\ LET rc == procs[callers[c].waiting_on].code
           o == RenderOutcome(rc, stats)
       IN /\ stats' = o.stats
          /\ last_progress' = IF o.report # -1 THEN o.report ELSE last_progress
          /\ callers' = [callers EXCEPT ![c].pc = "done",
                            ![c].return_code = rc,
                            ![c].result = o.result,
                            ![c].log = o.log,
                            ![c].returned_stats = o.stats]
    /\ is_running' = FALSE
    /\ temp_script_path' = Cleanup(temp_script_path, temp_files)[1]
    /\ temp_files' = Cleanup(temp_script_path, temp_files)[2]
    /\ UNCHANGED <<process, procs, monitors, canceller, variant, seen>>
    /\ UNCHANGED nonEngineVars

\* the Blender child writes a line to its stdout
process_writes(p, line) ==
    /\ p \in 1..Len(procs)
    /\ procs[p].state = "alive" /\ procs[p].written < MaxLines
    /\ procs' = [procs EXCEPT ![p].out = Append(@, line), ![p].written = @ + 1,
                              ![p].frames = IF ExtractFrame(line) # NoMatch
                                            THEN @ \cup {ExtractFrame(line)} ELSE @]
    /\ UNCHANGED <<is_running, process, stats, temp_script_path, temp_files,
                   callers, monitors, canceller, last_progress, variant, seen>>
    /\ UNCHANGED nonEngineVars

\* exit codes of a child that was sent terminate(): -SIGTERM on POSIX,
\* 1 on Windows (TerminateProcess(handle, 1))
TerminatedCodes == {-15, 1}

\* the Blender child exits
process_exits(p, code) ==
    /\ p \in 1..Len(procs)
    /\ procs[p].state = "alive"
    /\ IF procs[p].terminated THEN code \in TerminatedCodes ELSE code \in {0, 1}
    /\ procs' = [procs EXCEPT ![p].state = "exited", ![p].code = code]
    /\ UNCHANGED <<is_running, process, stats, temp_script_path, temp_files,
                   callers, monitors, canceller, last_progress, variant, seen>>
    /\ UNCHANGED nonEngineVars

\* _monitor_progress: the while condition
monitor_check(c) ==
    /\ monitors[c].pc = "check"
    /\ monitors' = [monitors EXCEPT ![c] =
          IF is_running /\ process # 0 /\ procs[process].state = "alive"
          THEN [@ EXCEPT !.pc = "read", !.target = process]
          ELSE [@ EXCEPT !.pc = "done"]]
    /\ UNCHANGED <<is_running, process, stats, temp_script_path, temp_files, procs,
                   callers, canceller, last_progress, variant, seen>>
    /\ UNCHANGED nonEngineVars

\* _monitor_progress: readline() returns a line, or '' at end of file
monitor_read(c) ==
    /\ monitors[c].pc = "read"
    /\ LET p == monitors[c].target IN
       IF procs[p].out # <<>>
       THEN LET r == MonitorLine(variant, monitors[c], stats, Head(procs[p].out)) IN
            /\ procs' = [procs EXCEPT ![p].out = Tail(@)]
            /\ monitors' = [monitors EXCEPT ![c] = [r.mon EXCEPT !.pc = "check"]]
            /\ stats' = r.stats
            /\ last_progress' = IF r.report # -1 THEN r.report ELSE last_progress
       ELSE /\ procs[p].state = "exited"
            /\ monitors' = [monitors EXCEPT ![c].pc = "check"]
            /\ UNCHANGED <<procs, stats, last_progress>>
    /\ UNCHANGED <<is_running, process, temp_script_path, temp_files,
                   callers, canceller, variant, seen>>
    /\ UNCHANGED nonEngineVars

\* the render() call that has set is_running and not returned yet (0: none)
RunInProgress ==
    IF \E c \in Callers : callers[c].pc \in {"launch", "started", "wait"}
    THEN CHOOSE c \in Callers : callers[c].pc \in {"launch", "started", "wait"}
    ELSE 0

\* cancel_render(): the guard and terminate()
cancel_terminate ==
    /\ canceller.pc = "idle"
    /\ IF is_running /\ process # 0
       THEN /\ procs' = [procs EXCEPT ![process].terminated =
                            @ \/ procs[process].state = "alive"]
            /\ canceller' = [IdleCanceller EXCEPT !.pc = "wait",
                                !.calls = <<"terminate">>, !.target = process,
                                !.during = RunInProgress]
       ELSE /\ canceller' = [IdleCanceller EXCEPT !.returned = "false"]
            /\ UNCHANGED procs
    /\ UNCHANGED <<is_running, process, stats, temp_script_path, temp_files,
                   callers, monitors, last_progress, variant, seen>>
    /\ UNCHANGED nonEngineVars

\* cancel_kill issued whether or not the child is still alive
cancel_kill_at_once ==
    /\ canceller.pc = "wait"
    /\ procs' = [procs EXCEPT ![process].state = "exited",
                              ![process].code =
                                  IF procs[process].state = "alive" THEN -9 ELSE @,
                              ![process].terminated = TRUE]
    /\ canceller' = [canceller EXCEPT !.pc = "killed",
                        !.calls = Append(@, "kill"),
                        !.alive_at_timeout = procs[process].state = "alive"]
    /\ UNCHANGED <<is_running, process, stats, temp_script_path, temp_files,
                   callers, monitors, last_progress, variant, seen>>
    /\ UNCHANGED nonEngineVars

\* cancel_render(): wait(timeout=10) expired, kill() and wait()
cancel_kill ==
    /\ canceller.pc = "wait"
    /\ procs[process].state = "alive"
    /\ procs' = [procs EXCEPT ![process].state = "exited", ![process].code = -9,
                              ![process].terminated = TRUE]
    /\ canceller' = [canceller EXCEPT !.pc = "killed",
                        !.calls = Append(@, "kill"),
                        !.alive_at_timeout = procs[process].state = "alive"]
    /\ UNCHANGED <<is_running, process, stats, temp_script_path, temp_files,
                   callers, monitors, last_progress, variant, seen>>
    /\ UNCHANGED nonEngineVars

\* cancel_render(): the child is gone; is_running = False, return True, finally
cancel_finish ==
    /\ canceller.pc \in {"wait", "killed"}
    /\ procs[process].state = "exited"
    /\ is_running' = FALSE
    /\ temp_script_path' = Cleanup(temp_script_path, temp_files)[1]
    /\ temp_files' = Cleanup(temp_script_path, temp_files)[2]
    /\ canceller' = [canceller EXCEPT !.pc = "idle", !.returned = "true"]
    /\ UNCHANGED <<process, stats, procs, callers, monitors, last_progress, variant, seen>>
    /\ UNCHANGED nonEngineVars

EngineNext(C, S, L) ==
    \/ \E c \in C, s \in S, blendExists \in BOOLEAN,
          makedirsRaises \in BOOLEAN : render_enter(c, s, blendExists, makedirsRaises)
    \/ \E c \in C, raises \in BOOLEAN : render_prepare(c, raises)
    \/ \E c \in C, raises \in BOOLEAN : render_popen(c, raises)
    \/ \E c \in C : render_wait(c)
    \/ \E c \in C : render_return(c)
    \/ \E p \in 1..MaxCallers, line \in L : process_writes(p, line)
    \/ \E p \in 1..MaxCallers, code \in {0, 1} \cup TerminatedCodes : process_exits(p, code)
    \/ \E c \in C : monitor_check(c)
    \/ \E c \in C : monitor_read(c)
    \/ cancel_terminate
    \/ cancel_kill
    \/ cancel_finish

\* ======================================================================
\* GPU device selection (src/core/cuda_accelerator.py)
\* ======================================================================
\* temperature / utilization when nvidia-smi gave nothing (None)
NoReading == -1

\* what the detection stores for a device, its id apart.  Memory is counted in
\* tenths of memory_total.
DeviceKinds ==
    [ memory_used : {1, 7}, memory_total : {10},
      temperature : {NoReading, 40, 80, 90},
      utilization : {NoReading, 10, 90} ]

\* _detect_devices_*: device i of the loop gets id i
Device(kind, id) ==
    [ id |-> id, memory_used |-> kind.memory_used, memory_total |-> kind.memory_total,
      temperature |-> kind.temperature, utilization |-> kind.utilization ]

DeviceLists ==
    UNION { { [i \in 1..n |-> Device(f[i], i - 1)] : f \in [1..n -> DeviceKinds] } :
            n \in 0..MaxDevices }

\* a score is kept as an exact fraction num / den (den > 0)
NegInf == [num |-> -1, den |-> 1]

\* total_score = memory_score * 0.6 + temp_score * 0.2 + util_score * 0.2 with
\*   memory_score = (1 - memory_used / memory_total) * 100
\*   temp_score   = max(0, (85 - temperature) / 85 * 100), 0 without a reading
\*   util_score   = 100 - utilization, 0 without a reading
\* brought to the denominator 85 * memory_total:
\*   0.6 * memory_score = 60 * (memory_total - memory_used) / memory_total
\*   0.2 * temp_score   = max(0, 20 * (85 - temperature)) / 85
\*   0.2 * util_score   = 17 * (100 - utilization) / 85
TotalScore(device) ==
    LET total == device.memory_total
        memory_part == 60 * 85 * (total - device.memory_used)
        temp_part == IF device.temperature = NoReading THEN 0
                     ELSE Max(0, 20 * (85 - device.temperature)) * total
        util_part == IF device.utilization = NoReading THEN 0
                     ELSE 17 * (100 - device.utilization) * total
    IN [num |-> memory_part + temp_part + util_part, den |-> 85 * total]

\* total_score >= best_score in place of total_score > best_score
ScoreGreaterOrEqual(a, b) == a.num * b.den >= b.num * a.den

\* total_score > best_score
ScoreGreater(a, b) == a.num * b.den > b.num * a.den

\* the for loop of get_best_device from the k-th device on
RECURSIVE BestFrom(_, _, _)
BestFrom(devices, k, best) ==
    IF k > Len(devices) THEN best
    ELSE LET total_score == TotalScore(devices[k]) IN
         BestFrom(devices, k + 1,
                  IF ScoreGreater(total_score, best.best_score)
                  THEN [best_device |-> devices[k].id, best_score |-> total_score]
                  ELSE best)

AccelIdle ==
    [ cuda_available |-> FALSE, devices |-> <<>>, current_device |-> 0,
      called |-> FALSE,      \* get_best_device has returned
      returned |-> 0 ]       \* what it returned

AccelInit == accel = AccelIdle

\* after __init__: devices are only detected once cuda_available is set
AccelStates ==
    { [AccelIdle EXCEPT !.cuda_available = a, !.devices = d] :
        a \in BOOLEAN, d \in DeviceLists } 

get_best_device ==
    /\ ~accel.called
    /\ accel' =
          IF ~accel.cuda_available \/ accel.devices = <<>>
          THEN [accel EXCEPT !.called = TRUE, !.returned = -1]
          ELSE LET best == BestFrom(accel.devices, 1,
                                    [best_device |-> 0, best_score |-> NegInf])
               IN [accel EXCEPT !.called = TRUE, !.current_device = best.best_device,
                                !.returned = best.best_device]
    /\ UNCHANGED nonAccelVars

NextDevice == get_best_device

\* ======================================================================
\* Render time estimate (BlenderRenderEngine.estimate_render_time)
\* ======================================================================
EstimateSettings ==
    { s \in [frame_start : {1, 2}, frame_end : {1, 2, 3, 250},
             samples : {16, 32, 100, 128}] : s.frame_end >= s.frame_start }

\* TestSettings with the whole frame range kept
TestSettingsFullRange(settings) ==
    [settings EXCEPT !.samples = Min(settings.samples, 32)]

\* test_settings: one frame, at most 32 samples
TestSettings(settings) ==
    [settings EXCEPT !.frame_end = settings.frame_start,
                     !.samples = Min(settings.samples, 32)]

NoEstimate == [error |-> FALSE, num |-> 0, den |-> 1]

EstimatorIdle ==
    [ pc |-> "idle",            \* idle | render | done
      settings |-> [frame_start |-> 1, frame_end |-> 1, samples |-> 16],
      test_settings |-> [frame_start |-> 1, frame_end |-> 1, samples |-> 16],
      test_time |-> 0,
      render_ok |-> FALSE,
      \* the dict returned: error, or estimated_total_time = num / den
      result |-> NoEstimate ]

EstimatorInit == estimator = EstimatorIdle

\* estimate_render_time up to the call of self.render(..., test_settings)
estimate_render_time(settings) ==
    /\ estimator.pc = "idle"
    /\ estimator' = [estimator EXCEPT !.pc = "render", !.settings = settings,
                                      !.test_settings = TestSettings(settings)]
    /\ UNCHANGED nonEstimatorVars

\* self.render returned ok after t seconds (or raised): the extrapolation
estimate_render_returned(ok, raises, t) ==
    /\ estimator.pc = "render"
    /\ LET s == estimator.settings
           frame_count == s.frame_end - s.frame_start + 1
       IN estimator' =
            IF raises \/ ~ok
            THEN [estimator EXCEPT !.pc = "done", !.render_ok = FALSE,
                                   !.result = [NoEstimate EXCEPT !.error = TRUE]]
            ELSE [estimator EXCEPT !.pc = "done", !.render_ok = TRUE, !.test_time = t,
                     \* test_time * (samples / test_samples) * frame_count
                     !.result = [error |-> FALSE,
                                 num |-> t * s.samples * frame_count,
                                 den |-> estimator.test_settings.samples]]
    /\ UNCHANGED nonEstimatorVars

NextEstimate ==
    \/ \E settings \in EstimateSettings : estimate_render_time(settings)
    \/ \E ok \in BOOLEAN, raises \in BOOLEAN, t \in 1..MaxTestTime :
          estimate_render_returned(ok, raises, t)

Init == WebInit /\ GuiInit /\ EngineInit /\ AccelInit /\ EstimatorInit

DeviceInit ==
    /\ WebInit /\ GuiInit /\ EngineInit /\ EstimatorInit
    /\ accel \in AccelStates
    /\ accel.devices # <<>> => accel.cuda_available

SpecDevice == DeviceInit /\ [][NextDevice]_vars

SpecEstimate == Init /\ [][NextEstimate]_vars

SpecGui == Init /\ [][NextGui]_vars

\* one thread calls render() once; another may call cancel_render()
NextEngine == EngineNext({1}, EngineSettings, EngineLines)

SpecEngine == Init /\ [][NextEngine]_vars

\* The same with the threads of the engine scheduled fairly: the thread in
\* render(), the monitor thread and the thread in cancel_render() go on
\* whenever they can.  Nothing makes a child process write or exit.
EngineFairness ==
    /\ \A c \in {1} :
          /\ WF_vars(\E raises \in BOOLEAN : render_prepare(c, raises))
          /\ WF_vars(\E raises \in BOOLEAN : render_popen(c, raises))
          /\ WF_vars(render_wait(c))
          /\ WF_vars(render_return(c))
          /\ WF_vars(monitor_check(c))
          /\ WF_vars(monitor_read(c))
    /\ WF_vars(cancel_kill)
    /\ WF_vars(cancel_finish)

SpecEngineLive == Init /\ [][NextEngine]_vars /\ EngineFairness

\* MaxCallers threads call render() on the same engine, each for the single
\* frame 1; the children write nothing and nobody cancels
NextEngineConc ==
    \/ \E c \in Callers, blendExists \in BOOLEAN, makedirsRaises \in BOOLEAN :
          render_enter(c, [frame_start |-> 1, frame_end |-> 1], blendExists,
                       makedirsRaises)
    \/ \E c \in Callers, raises \in BOOLEAN : render_prepare(c, raises)
    \/ \E c \in Callers, raises \in BOOLEAN : render_popen(c, raises)
    \/ \E c \in Callers : render_wait(c)
    \/ \E c \in Callers : render_return(c)
    \/ \E p \in 1..MaxCallers, code \in {0, 1} : process_exits(p, code)
    \/ \E c \in Callers : monitor_check(c)
    \/ \E c \in Callers : monitor_read(c)

SpecEngineConc == Init /\ [][NextEngineConc]_vars

\* MaxCallers threads call render() on the same engine and the children
\* write nothing, as above, with the monitor threads never scheduled: without
\* output they change nothing but their own position, and render() reads
\* nothing of theirs
NextEngineCalls ==
    \/ \E c \in Callers, blendExists \in BOOLEAN, makedirsRaises \in BOOLEAN :
          render_enter(c, [frame_start |-> 1, frame_end |-> 1], blendExists,
                       makedirsRaises)
    \/ \E c \in Callers, raises \in BOOLEAN : render_prepare(c, raises)
    \/ \E c \in Callers, raises \in BOOLEAN : render_popen(c, raises)
    \/ \E c \in Callers : render_wait(c)
    \/ \E c \in Callers : render_return(c)
    \/ \E p \in 1..MaxCallers, code \in {0, 1} : process_exits(p, code)

SpecEngineCalls == Init /\ [][NextEngineCalls]_vars

\* one thread calls render() MaxCallers times in a row on the same engine,
\* each time for the single frame 1, the next call after the previous one
\* returned; another thread may call cancel_render() at any moment
NextEngineSeq ==
    \/ \E c \in Callers :
          /\ \A d \in 1..(c - 1) : callers[d].pc = "done"
          /\ render_enter(c, [frame_start |-> 1, frame_end |-> 1], TRUE, FALSE)
    \/ \E c \in Callers : render_prepare(c, FALSE)
    \/ \E c \in Callers : render_popen(c, FALSE)
    \/ \E c \in Callers : render_wait(c)
    \/ \E c \in Callers : render_return(c)
    \/ \E p \in 1..MaxCallers : process_writes(p, FraLine(1))
    \/ \E p \in 1..MaxCallers, code \in {0, 1} \cup TerminatedCodes : process_exits(p, code)
    \/ \E c \in Callers : monitor_check(c)
    \/ \E c \in Callers : monitor_read(c)
    \/ cancel_terminate
    \/ cancel_kill
    \/ cancel_finish

SpecEngineSeq == Init /\ [][NextEngineSeq]_vars

\* ---- the progress monitor alone, fed any lines (both source variants)
\* lines that match several frame patterns, both markers, or a frame pattern
\* and a marker
MixedLines ==
    { Line(1, NoMatch, NoMatch, 2, FALSE, FALSE),
      Line(NoMatch, 2, 1, NoMatch, FALSE, FALSE),
      Line(NoMatch, NoMatch, 3, 1, FALSE, FALSE),
      Line(NoMatch, NoMatch, NoMatch, NoMatch, TRUE, TRUE),
      Line(2, NoMatch, NoMatch, NoMatch, TRUE, FALSE),
      Line(NoMatch, NoMatch, NoMatch, 3, FALSE, TRUE) }

FeedLines ==
    {FraLine(n) : n \in 0..MaxFeedFrame} \cup {FrameLine(n) : n \in 0..MaxFeedFrame}
    \cup {ErrorLine, WarningLine, PlainLine} \cup MixedLines

MonitorInit ==
    /\ WebInit /\ GuiInit /\ AccelInit /\ EstimatorInit
    /\ is_running = TRUE
    /\ process = 0
    /\ \E total \in {0, 1, MaxFeedFrame} : stats = NewStats(total)
    /\ temp_script_path = 0
    /\ temp_files = {}
    /\ procs = <<>>
    /\ callers = [c \in Callers |-> IdleCaller]
    /\ monitors = [c \in Callers |->
                     IF c = 1 THEN [NewMonitor EXCEPT !.pc = "read"] ELSE NewMonitor]
    /\ canceller = IdleCanceller
    /\ last_progress = -1
    /\ variant \in {"original", "fixed_part2"}
    /\ seen = <<>>

\* the monitor reads `line` and handles it
monitor_feed(line) ==
    /\ Len(seen) < MaxFeed
    /\ LET r == MonitorLine(variant, monitors[1], stats, line) IN
       /\ monitors' = [monitors EXCEPT ![1] = r.mon]
       /\ stats' = r.stats
       /\ last_progress' = IF r.report # -1 THEN r.report ELSE last_progress
       /\ seen' = Append(seen, [frame |-> ExtractFrame(line),
                                rendered |-> r.stats.frames_rendered,
                                last_frame |-> r.mon.last_frame])
    /\ UNCHANGED <<is_running, process, temp_script_path, temp_files, procs,
                   callers, canceller, variant>>
    /\ UNCHANGED nonEngineVars

NextMonitor == \E line \in FeedLines : monitor_feed(line)

SpecMonitor == MonitorInit /\ [][NextMonitor]_vars

WebNext(R, S) ==
    \/ \E r \in R, ok \in BOOLEAN, s \in S : start_render(r, ok, s)
    \/ cancel_render
    \/ \E r \in R, raises \in BOOLEAN : blender_render_start(r, raises)
    \/ \E r \in R : render_child_writes(r)
    \/ \E r \in R, code \in {0, 1} : child_exits(r, code)
    \/ \E r \in R : blender_render_poll(r)
    \/ \E r \in R : blender_render_end(r)
    \/ \E r \in R : per_file_stage_call(r)
    \/ \E r \in R, raises \in BOOLEAN : per_file_tool_start(r, raises)
    \/ \E r \in R, code \in {0, 1} : per_file_tool_exit(r, code)
    \/ \E r \in R, raises \in BOOLEAN : single_tool_start(r, raises)
    \/ \E r \in R, code \in {0, 1} : single_tool_exit(r, code)

\* One start-render request and its pipeline thread, every setting.  A
\* pipeline thread reads nothing another pipeline thread writes, so what one
\* run does is decided here.
NextWeb == WebNext({1}, WebSettings)

SpecWeb == Init /\ [][NextWeb]_vars

\* Several start-render requests; each asks for one frame and no optional stage
ConcSettings ==
    { s \in WebSettings : /\ s.frame_count = 1 /\ ~s.enable_upscale
                          /\ ~s.enable_interpolation /\ s.codec = "prores_ks"
                          /\ s.denoise_method = "OIDN" }

NextWebConc == WebNext(RunIds, ConcSettings)

SpecWebConc == Init /\ [][NextWebConc]_vars

\* ======================================================================
\* Claims about the web pipeline
\* ======================================================================
StepOrder ==
    <<"rendering", "denoising", "upscaling", "interpolating", "encoding", "complete">>

StageSteps == SubSeq(StepOrder, 1, 5)

\* position of x in a sequence without repeats (0 when absent)
Pos(t, x) == IF \E k \in 1..Len(t) : t[k] = x
             THEN CHOOSE k \in 1..Len(t) : t[k] = x ELSE 0

\* s is a subsequence of t, a sequence without repeats
IsSubseq(s, t) ==
    /\ \A k \in 1..Len(s) : Pos(t, s[k]) > 0
    /\ \A k \in 1..(Len(s) - 1) : Pos(t, s[k]) < Pos(t, s[k + 1])

\* the stages of a run are called in the fixed order, none twice, each only
\* after every stage called before it returned normally
LaunchedInOrder(run) ==
    /\ IsSubseq(run.launched, StageOrder)
    /\ \A k \in 1..(Len(run.launched) - 1) : run.launched[k] \in run.succeeded
    /\ run.child = "alive" => run.pc = Last(run.launched)

\* C1 (as stated): in every run the stages are launched one after another in
\* the order render, denoise, upscale, interpolate, encode, each only after
\* the previous launched stage succeeded and none twice, and the steps the
\* run reports are a subsequence of rendering, denoising, upscaling,
\* interpolating, encoding, complete.
C1_StepsEndInComplete ==
    \A r \in RunIds :
        LaunchedInOrder(runs[r]) /\ IsSubseq(runs[r].steps, StepOrder)

\* C1 (amended): the same, the reported steps being a subsequence of
\* rendering, denoising, upscaling, interpolating, encoding followed by at
\* most one of complete and error.
C1_StagesInFixedOrder ==
    \A r \in RunIds :
        LET s == runs[r].steps IN
        /\ LaunchedInOrder(runs[r])
        /\ \/ IsSubseq(s, StepOrder)
           \/ /\ Len(s) > 0 /\ Last(s) = "error"
              /\ IsSubseq(SubSeq(s, 1, Len(s) - 1), StageSteps)

\* a run that called all five stages and completed
C1_Witness ==
    \E r \in RunIds :
        /\ runs[r].launched = StageOrder
        /\ runs[r].steps = StepOrder
        /\ runs[r].outcome = "complete"

\* C3: once a cancellation was requested during a run, that run launches no
\* further stage, reports nothing further, and ends as cancelled.
C3_CancelStopsRun ==
    \A r \in RunIds :
        runs[r].cancelled =>
            /\ ~runs[r].launchedAfterCancel
            /\ ~runs[r].reportedAfterCancel
            /\ runs[r].pc = "done" => runs[r].outcome = "cancelled"

\* C5: at most one pipeline thread is in progress and at most one child
\* process is alive at any time.
C5_SingleActiveRun ==
    /\ Cardinality({r \in RunIds : InProgress(runs[r])}) <= 1
    /\ Cardinality({r \in RunIds : runs[r].child = "alive"}) <= 1

\* C8 (web pipeline): until the render child has exited with code 0 every
\* progress value the render stage reported is at most 99.
C8_WebRenderBelow100 ==
    \A r \in RunIds :
        (runs[r].pc = "render" /\ runs[r].child # "exit0"
            /\ runs[r].reported.step = "rendering")
        => runs[r].reported.progress <= 99

\* C2: fail-fast. Once the external process of a stage exited non-zero or
\* raised, the run launches no later stage and does not end as complete.
C2_FailFast ==
    /\ \A r \in RunIds :
          runs[r].failed => runs[r].pc = "done" /\ runs[r].outcome = "error"
    /\ gui.failed =>
          /\ ~gui.launchedAfterFailure
          /\ gui.pc = "done" => gui.outcome # "complete"

\* C11: a run whose codec is not one of the supported codecs launches no
\* stage at all, the render stage included.
C11_InvalidCodecRunsNoStage ==
    \A r \in RunIds :
        (runs[r].pc # "unborn" /\ runs[r].settings.codec \notin {"prores_ks", "qtrle"})
            => runs[r].launched = <<>>

\* the directory the stage called after the stages in `ran` must read
LastOutput(ran) ==
    IF "interpolate" \in ran THEN "interpolated"
    ELSE IF "upscale" \in ran THEN "upscaled"
    ELSE IF "denoise" \in ran THEN "denoised"
    ELSE "output"

\* C12: a disabled optional stage is never called, and every stage called
\* after render reads the output directory of the stage called last before
\* it (interpolated, else upscaled, else denoised, else the render output).
C12_OptionalStages ==
    \A r \in RunIds :
        LET run == runs[r] IN
        /\ ~run.settings.enable_upscale => \A k \in 1..Len(run.launched) :
                                               run.launched[k] # "upscale"
        /\ ~run.settings.enable_interpolation => \A k \in 1..Len(run.launched) :
                                               run.launched[k] # "interpolate"
        /\ Len(run.inputs) = Len(run.launched)
        /\ \A k \in 2..Len(run.launched) :
              /\ run.inputs[k] = DirOf(run.launched[k - 1])
              /\ run.inputs[k] = LastOutput({run.launched[j] : j \in 1..(k - 1)})

\* upscale was skipped, and encode read what interpolate wrote, which had
\* read what denoise wrote
C12_Witness ==
    \E r \in RunIds :
        /\ runs[r].launched = <<"render", "denoise", "interpolate", "encode">>
        /\ runs[r].inputs = <<"blend", "output", "denoised", "interpolated">>
        /\ runs[r].outcome = "complete"

\* ======================================================================
\* Claims about BlenderRenderEngine
\* ======================================================================
AliveProcs == {p \in 1..Len(procs) : procs[p].state = "alive"}

\* C4: at most one child process of an engine is alive at any time, and a
\* render() call that found a run in progress returns the already-running
\* failure without launching a process.
C4_OneChildAlive ==
    /\ Cardinality(AliveProcs) <= 1
    /\ \A c \in Callers :
          callers[c].log = "already_running" =>
             callers[c].launched = 0 /\ callers[c].result = "false"

\* C6: for every sequence of lines fed to the progress monitor the values of
\* frames_rendered never decrease (Fra:5, Fra:3, Fra:6 gives 5, 5, 6).
C6_FramesNonDecreasing ==
    /\ seen # <<>> => seen[1].rendered >= 0
    /\ \A k \in 1..(Len(seen) - 1) : seen[k].rendered <= seen[k + 1].rendered

\* the monitor was fed frames 5, 3, 6 and showed 5, 5, 6
C6_Witness ==
    /\ Len(seen) = 3
    /\ seen[1].frame = 5 /\ seen[1].rendered = 5
    /\ seen[2].frame = 3 /\ seen[2].rendered = 5
    /\ seen[3].frame = 6 /\ seen[3].rendered = 6

\* a render() call that got as far as waiting for its child and has returned
Waited(c) == callers[c].pc = "done" /\ callers[c].waiting_on # 0

\* C7: render() reports success iff the child exited with code 0 and
\* frames_rendered equals total_frames; exit code 0 with another frame count
\* gives failure with an error recorded.
C7_SuccessIffAllFrames ==
    \A c \in Callers :
        Waited(c) =>
            LET st == callers[c].returned_stats
                full == st.frames_rendered = st.total_frames
            IN /\ callers[c].result = "true" <=> (callers[c].return_code = 0 /\ full)
               /\ (callers[c].return_code = 0 /\ ~full) => st.errors # <<>>

\* C9: a run whose child was stopped by cancel_render ends differently from a
\* run whose child exited non-zero by itself after the same output: the value
\* render() returns or the statistics it leaves differ.
C9_CancelDistinct ==
    \A c \in Callers :
        (Waited(c) /\ procs[callers[c].waiting_on].terminated) =>
            \A code \in {1} :
                LET failure == RenderOutcome(code, callers[c].returned_stats) IN
                [result |-> callers[c].result, stats |-> callers[c].returned_stats]
                  # [result |-> failure.result, stats |-> failure.stats]

\* C10: a frame range with frame_end < frame_start is rejected before any
\* child is launched; frame_start = frame_end is accepted with total_frames 1.
C10_RangeValidated ==
    \A c \in Callers :
        LET s == callers[c].settings IN
        /\ (callers[c].pc # "idle" /\ s.frame_end < s.frame_start)
              => callers[c].launched = 0 /\ callers[c].pc \notin {"started", "wait"}
        /\ (callers[c].pc \in {"launch", "started", "wait"}
                /\ s.frame_end = s.frame_start)
              => stats.total_frames = 1

\* ======================================================================
\* Claims about device selection and the render time estimate
\* ======================================================================
DeviceA == [memory_used |-> 1, memory_total |-> 10, temperature |-> 40, utilization |-> 10]
DeviceB == [memory_used |-> 7, memory_total |-> 10, temperature |-> 80, utilization |-> 90]

\* the scores of devices a and b compared as fractions: -1, 0 or 1
CompareScores(a, b) ==
    LET x == TotalScore(a).num * TotalScore(b).den
        y == TotalScore(b).num * TotalScore(a).den
    IN IF x < y THEN -1 ELSE IF x = y THEN 0 ELSE 1

\* C13: get_best_device returns -1 iff the device list is empty; otherwise it
\* returns the id of a device whose total score no device exceeds, the lowest
\* id among the devices with that score; of A (free 0.9, 40 C, 10 %) and
\* B (free 0.3, 80 C, 90 %) it returns A.
C13_BestDevice ==
    accel.called =>
        LET d == accel.devices IN
        /\ accel.returned = -1 <=> d = <<>>
        /\ d # <<>> =>
              \E i \in 1..Len(d) :
                 /\ d[i].id = accel.returned
                 /\ \A j \in 1..Len(d) : CompareScores(d[j], d[i]) <= 0
                 /\ \A j \in 1..Len(d) :
                       CompareScores(d[j], d[i]) = 0 => d[j].id >= d[i].id
        /\ d = <<Device(DeviceA, 0), Device(DeviceB, 1)>> => accel.returned = 0
        /\ d = <<Device(DeviceB, 0), Device(DeviceA, 1)>> => accel.returned = 1

\* two different devices have the same score and the first one was returned
C13_Witness ==
    /\ accel.called /\ Len(accel.devices) = 2
    /\ accel.devices[1].temperature # accel.devices[2].temperature
    /\ CompareScores(accel.devices[1], accel.devices[2]) = 0
    /\ accel.returned = 0

\* C14: estimate_render_time renders the single frame frame_start with
\* min(samples, 32) samples; when that render succeeds in t seconds it returns
\* estimated_total_time = t * (samples / reduced samples) * (frame_end -
\* frame_start + 1), 10000 for t = 10, 128 samples, 250 frames; when it fails
\* it returns an error and no estimate.
C14_Estimate ==
    LET s == estimator.settings
        ts == estimator.test_settings
        reduced == IF s.samples <= 32 THEN s.samples ELSE 32
        r == estimator.result
    IN /\ estimator.pc # "idle" =>
             /\ ts.frame_start = s.frame_start /\ ts.frame_end = s.frame_start
             /\ ts.samples = reduced
       /\ (estimator.pc = "done" /\ estimator.render_ok) =>
             /\ ~r.error
             /\ r.num * reduced
                  = estimator.test_time * s.samples * (s.frame_end - s.frame_start + 1)
                    * r.den
             /\ (estimator.test_time = 10 /\ s.samples = 128
                    /\ s.frame_end - s.frame_start + 1 = 250) => r.num = 10000 * r.den
       /\ (estimator.pc = "done" /\ ~estimator.render_ok) => r.error /\ r.num = 0

\* the test render of a 250-frame, 128-sample job took 10 s: 10000 s estimated
C14_Witness ==
    /\ estimator.pc = "done" /\ estimator.render_ok
    /\ estimator.test_time = 10 /\ estimator.settings.samples = 128
    /\ estimator.settings.frame_start = 1 /\ estimator.settings.frame_end = 250
    /\ estimator.test_settings.samples = 32
    /\ estimator.result.num = 10000 * estimator.result.den

\* ======================================================================
\* Claims about temporary files and exceptions
\* ======================================================================
\* C15: when a stage has returned, whatever way, the temporary files and
\* directories it created are gone: the render script of a render() call
\* that returned, the working directory temp_interpolation of the desktop
\* interpolation stage.
C15_TempRemoved ==
    /\ \A c \in Callers : callers[c].pc = "done" => c \notin temp_files
    /\ gui.pc \notin {"idle", "render", "denoise", "upscale", "interpolate"}
          => "temp_interpolation" \notin gui.temp_dirs

\* C16: render() never lets an exception reach its caller: a failure while
\* preparing, launching or waiting gives the result False with the error
\* recorded in stats.errors.
C16_NoExceptionEscapes ==
    \A c \in Callers :
        /\ callers[c].result # "raised"
        /\ callers[c].log = "exception" =>
              /\ callers[c].result = "false"
              /\ callers[c].returned_stats.errors # <<>>

\* ======================================================================
\* Claims about the progress monitor and cancel_render
\* ======================================================================
\* C17: a frame-completion line fed twice in a row (the same frame number
\* twice) leaves frames_rendered and last_frame after the second occurrence
\* as they were after the first.
C17_SameLineTwice ==
    \A k \in 1..(Len(seen) - 1) :
        (seen[k + 1].frame = seen[k].frame /\ seen[k].frame # NoMatch) =>
            /\ seen[k + 1].rendered = seen[k].rendered
            /\ seen[k + 1].last_frame = seen[k].last_frame

\* Fra:3 advanced the original monitor to 3 and was then fed once more
C17_Witness ==
    /\ variant = "original" /\ Len(seen) >= 2
    /\ seen[1].frame = 3 /\ seen[2].frame = 3
    /\ seen[1].rendered = 3 /\ seen[2].rendered = 3
    /\ seen[2].last_frame = 3

\* C18: after the monitor handled a completion line for frame n of the
\* configured range frame_start..frame_end, frames_rendered is the larger of
\* its previous value and n - frame_start + 1.
C18_FrameStartOffset ==
    \A c \in Callers :
        LET s == callers[c].settings
            n == monitors[c].read_frame
        IN (n # NoMatch /\ s.frame_start <= n /\ n <= s.frame_end) =>
              monitors[c].after = Max(monitors[c].before, n - s.frame_start + 1)

C20_ImmutableAfterReturn ==
    \A c \in Callers :
        Waited(c) =>
            /\ stats.frames_rendered = callers[c].returned_stats.frames_rendered
            /\ stats.errors = callers[c].returned_stats.errors
            /\ stats.warnings = callers[c].returned_stats.warnings
            /\ callers[c].result = "true" => last_progress = 100

\* ======================================================================
\* Claims about the directory hand-off
\* ======================================================================
\* C21: each stage writes files only into its own directory, no stage
\* creates, changes or deletes a file in the directory it reads its input
\* from, and no two stages write into the same directory.
C21_DirectoryHandOff ==
    \A r \in RunIds :
        LET run == runs[r] IN
        /\ \A w \in run.writes : w[2] = DirOf(w[1])
        /\ \A k \in 1..Len(run.launched) :
              <<run.launched[k], run.inputs[k]>> \notin run.writes
        /\ \A w1 \in run.writes : \A w2 \in run.writes :
              w1[2] = w2[2] => w1[1] = w2[1]

\* ======================================================================
\* Claims about termination
\* ======================================================================
\* C22: every render() call that waits for its child returns in the end,
\* whether or not the child ever exits by itself (a child that does not is
\* stopped when the wall-clock budget of the stage expires).
C22_RenderReturns ==
    \A c \in {1} : (callers[c].pc = "wait") ~> (callers[c].pc = "done")

\* ======================================================================
\* Claims about the parsing of the child's output
\* ======================================================================
\* the frame numbers the four patterns find in a line, in the order of the
\* pattern list: Fra:, Saved: '...render_', Rendering n / m, Frame
PatternValues(line) == <<line.fra, line.saved, line.rendering, line.frame>>

Matching(line) == {k \in 1..4 : PatternValues(line)[k] # NoMatch}

\* C23: the frame number of a line is the one found by the earliest pattern
\* of the list that matches it; a line that matches no pattern gives no frame
\* number and leaves frames_rendered unchanged.
C23_FirstMatchWins ==
    \A c \in Callers :
        LET mon == monitors[c]
            hits == Matching(mon.read_line)
        IN mon.handled =>
             IF hits = {}
             THEN mon.read_frame = NoMatch /\ mon.after = mon.before
             ELSE \E k \in hits :
                     /\ \A j \in hits : k <= j
                     /\ mon.read_frame = PatternValues(mon.read_line)[k]

\* a line with Fra:1 and Frame 2 was handled as frame 1
C23_Witness ==
    \E c \in Callers :
        /\ monitors[c].handled
        /\ monitors[c].read_line = Line(1, NoMatch, NoMatch, 2, FALSE, FALSE)
        /\ monitors[c].read_frame = 1
        /\ monitors[c].after = 1

\* C24: a handled line with ERROR / Error is the last entry of the error
\* log, and independently a handled line with WARNING / Warning is the last
\* entry of the warning log (a line with both is in both logs), whether or
\* not the line carried a frame number.
C24_ErrorsAndWarnings ==
    \A c \in Callers :
        LET line == monitors[c].read_line IN
        monitors[c].handled =>
            /\ line.error => stats.errors # <<>> /\ Last(stats.errors) = line
            /\ line.warning => stats.warnings # <<>> /\ Last(stats.warnings) = line

\* ======================================================================
\* Claims about side effects and interleavings
\* ======================================================================
\* C25: get_best_device leaves the accelerator's device list and its
\* current_device as they were.
C25_NoSideEffects ==
    [][ /\ accel'.devices = accel.devices
        /\ accel'.current_device = accel.current_device ]_vars

\* ======================================================================
\* Claims about consecutive render() calls and cancel_render()
\* ======================================================================
\* C26: when cancel_render has returned True for a call made during a
\* render() call, that render() call does not return True and no child of
\* that call is left running.
C26_CancelWins ==
    (canceller.returned = "true" /\ canceller.during # 0) =>
        LET c == canceller.during IN
        /\ callers[c].result # "true"
        /\ callers[c].launched # 0 => procs[callers[c].launched].state = "exited"

\* the monitor threads inside the body of their loop
ActiveMonitors == {c \in Callers : monitors[c].pc = "read"}

\* C27: the monitor thread of a render() call reads only the output of the
\* child of that call, and at most one monitor thread is inside its loop at
\* any time.
C27_OneMonitorPerChild ==
    /\ \A c \in Callers :
          monitors[c].target # 0 => procs[monitors[c].target].owner = c
    /\ Cardinality(ActiveMonitors) <= 1

\* C28: when the child of a render() call wrote a completion line for
\* every frame of the range and exited with code 0, the statistics with which
\* render() returned have frames_rendered equal to total_frames.
C28_NoFrameLost ==
    \A c \in Callers :
        LET s == callers[c].settings
            st == callers[c].returned_stats
        IN (/\ Waited(c)
            /\ callers[c].return_code = 0
            /\ callers[c].launched = callers[c].waiting_on
            /\ \A n \in s.frame_start..s.frame_end :
                  n \in procs[callers[c].launched].frames)
           => st.frames_rendered = st.total_frames

\* C29: from the moment render() has set up the statistics of a run,
\* 0 <= frames_rendered <= total_frames.
C29_FramesWithinTotal ==
    (\E c \in Callers : callers[c].pc \in {"launch", "started", "wait"} \/ Waited(c)) =>
        /\ 0 <= stats.frames_rendered
        /\ stats.frames_rendered <= stats.total_frames

\* C30: is_running is True only while a render() call that set it has not
\* returned yet (every exit path resets it), and a render() call rejected
\* because is_running is set leaves is_running True and the statistics, the
\* process, the temp script, the children and the monitors as they were.
C30_IsRunningReset ==
    /\ [](is_running => RunInProgress # 0)
    /\ [][\A c \in Callers :
            (callers[c].pc = "idle" /\ callers'[c].log = "already_running") =>
                /\ is_running /\ is_running'
                /\ UNCHANGED <<stats, process, temp_script_path, temp_files,
                               procs, monitors>>]_vars

\* one call was rejected while another was running, that other call ended by
\* an exception, and is_running is False again
C30_Witness ==
    \E c \in Callers, d \in Callers :
        /\ callers[c].pc = "done" /\ callers[c].log = "already_running"
        /\ callers[d].pc = "done" /\ callers[d].log = "exception"
        /\ \A e \in Callers : callers[e].pc \in {"idle", "done"}
        /\ ~is_running

====
